---------------------------- MODULE Spec2Model ----------------------------
(***************************************************************************)
(* The STV count of gformvoting.py: ElectionManager.run with its tally,    *)
(* quota check, elimination and two-stage tiebreak, started the way the    *)
(* program's entry points start it (role table, excluded columns dropped,  *)
(* ElectionManager constructed on the result).                             *)
(*                                                                         *)
(* A cell of the voting table is a positive rank or NaN; NaN is written 0. *)
(* A DataFrame of results is a sequence of rows [Candidate, Total, Round]. *)
(***************************************************************************)
EXTENDS Integers, Sequences, FiniteSets, TLC

\* Bounds of the model.
MaxBallots == 3
MaxSeats == 2
MaxRoles == 2
MaxRoleBallots == 2
MaxTableRows == 2

\* The columns of the role's table, in column order.
AllCandidates == <<"A", "B", "C">>

NaN == 0
None == "None"

Range(s) == {s[i] : i \in DOMAIN s}

RECURSIVE SumSeq(_)
SumSeq(s) == IF s = <<>> THEN 0 ELSE Head(s) + SumSeq(Tail(s))

Position(s, x) == CHOOSE i \in DOMAIN s : s[i] = x

SeqPermutations(s) ==
    {p \in [DOMAIN s -> Range(s)] : \A i, j \in DOMAIN s : i # j => p[i] # p[j]}

Max(S) == CHOOSE x \in S : \A y \in S : y <= x
Min(S) == CHOOSE x \in S : \A y \in S : x <= y

---------------------------------------------------------------------------
(* Preparation of a role's table.                                          *)

\* A test of the ranks that asks for each rank at least once (>= 1 for == 1).
InformalVote_AtLeastOnce(vote) ==
    LET prefs == {vote[c] : c \in DOMAIN vote}
        no_vote == \A c \in DOMAIN vote : vote[c] = NaN
        no_first_pref == ~(\E c \in DOMAIN vote : vote[c] = 1)
        not_sequential ==
            ~(\A pref \in 1..Max(prefs) :
                Cardinality({c \in DOMAIN vote : vote[c] = pref}) >= 1)
    IN  no_vote \/ no_first_pref \/ not_sequential

\* discard_informal_votes, the test of one row: every cell NaN, or no cell
\* equal to 1, or some rank in 1..max used not exactly once.
InformalVote(vote) ==
    LET prefs == {vote[c] : c \in DOMAIN vote}
        no_vote == \A c \in DOMAIN vote : vote[c] = NaN
        no_first_pref == ~(\E c \in DOMAIN vote : vote[c] = 1)
        not_sequential ==
            ~(\A pref \in 1..Max(prefs) :
                Cardinality({c \in DOMAIN vote : vote[c] = pref}) = 1)
    IN  no_vote \/ no_first_pref \/ not_sequential

discard_informal_votes(voting_table) ==
    SelectSeq(voting_table, LAMBDA vote : ~InformalVote(vote))

\* remove_excluded_candidates: the columns of the excluded candidates dropped.
remove_excluded_columns(columns, excluded) ==
    SelectSeq(columns, LAMBDA c : c \notin excluded)

remove_excluded_candidates(voting_table, excluded) ==
    [i \in DOMAIN voting_table |->
        [c \in (DOMAIN voting_table[i]) \ excluded |-> voting_table[i][c]]]

---------------------------------------------------------------------------
(* The tables the model is run on.                                         *)

CandidateSet == Range(AllCandidates)

Row(a, b, c) == ("A" :> a) @@ ("B" :> b) @@ ("C" :> c)

FormalRows ==
    {r \in [CandidateSet -> 0..Len(AllCandidates)] : ~InformalVote(r)}

\* Informal rows: a blank row, the duplicate rank {A:1, C:1}, and a row with
\* no first preference.
InformalRows == {Row(NaN, NaN, NaN), Row(1, NaN, 1), Row(NaN, 2, NaN)}

Rows == FormalRows \cup InformalRows

RowCode(r) == r["A"] * 16 + r["B"] * 4 + r["C"]

\* The tables of at most n rows. The order of the rows of a table changes no
\* sum, so one table stands for all its reorderings.
RECURSIVE TablesFrom(_, _)
TablesFrom(n, code) ==
    IF n = 0 THEN {<<>>}
    ELSE {<<>>} \cup
         UNION {{<<r>> \o t : t \in TablesFrom(n - 1, RowCode(r))} :
                    r \in {x \in Rows : RowCode(x) >= code}}

\* The worked example election: 5 ballots over A, B, C.
ExampleTable ==
    << Row(1, 2, 3), Row(1, 2, 3), Row(2, 1, 3), Row(2, 1, 3), Row(2, 3, 1) >>

\* An election whose second-round tie is separated by the first round:
\* round 1 has A=2, B=1, C=1, and C's ballot goes on to B.
LookbackTable ==
    << Row(1, NaN, NaN), Row(1, NaN, NaN), Row(NaN, 1, NaN), Row(NaN, 2, 1) >>

\* An election of four candidates and twelve voters whose third-round tie
\* between A and B is separated by round 2 (A=4, B=5), and the other way
\* round by round 1 (A=4, B=3): D goes out first and its ballots go to B,
\* then C goes out and one of its ballots goes to A.
Row4(a, b, c, d) == ("A" :> a) @@ ("B" :> b) @@ ("C" :> c) @@ ("D" :> d)

RecentTable ==
    << Row4(1, NaN, NaN, NaN), Row4(1, NaN, NaN, NaN), Row4(1, NaN, NaN, NaN),
       Row4(1, NaN, NaN, NaN),
       Row4(NaN, 1, NaN, NaN), Row4(NaN, 1, NaN, NaN), Row4(NaN, 1, NaN, NaN),
       Row4(NaN, 2, NaN, 1), Row4(NaN, 2, NaN, 1),
       Row4(2, NaN, 1, NaN), Row4(NaN, NaN, 1, NaN), Row4(NaN, NaN, 1, NaN) >>

\* An election whose first-round tie between B and C is decided at level 2
\* by C's ballot, beside two ballots for A that rank C second and are not
\* involved in the tie.
BystanderTable ==
    << Row(1, NaN, 2), Row(1, NaN, 2), Row(NaN, 1, NaN), Row(NaN, 2, 1) >>

VotingTables ==
    TablesFrom(MaxBallots, 0)
        \cup {ExampleTable, LookbackTable, RecentTable, BystanderTable}

\* votetable.keys(): the columns of a table, in column order.
Columns(voting_table) ==
    IF voting_table = <<>> THEN AllCandidates
    ELSE SelectSeq(<<"A", "B", "C", "D">>, LAMBDA c : c \in DOMAIN voting_table[1])

HasTiedRanks(voting_table) ==
    \E i \in DOMAIN voting_table :
        \E c, d \in DOMAIN voting_table[i] :
            c # d /\ voting_table[i][c] # NaN
                  /\ voting_table[i][c] = voting_table[i][d]

---------------------------------------------------------------------------
\* No function has been called on its own.
NoCall == [name |-> "none"]

VARIABLES
    votes,                  \* self.votes: <<[vote, value]>>
    n_winners,              \* self.n_winners
    quota,                  \* self.quota
    candidates,             \* self.candidates
    remaining_candidates,   \* self.remaining_candidates
    winning_candidates,     \* self.winning_candidates
    result_record,          \* self.result_record: one result per round
    allow_random_tiebreak,  \* self.allow_random_tiebreak
    round,                  \* the loop variable of run
    pc,                     \* where run is: loop, quota, eliminate, done, error;
                            \* exit once main has returned
    err,                    \* the exception that ended run, "" if none
    transcript,             \* what run printed about tiebreaks and eliminations
    sort_order,             \* how argsort orders equal ranks in this build
    roles,                  \* main: the table of each role of the input
    xrole,                  \* main: the loop variable, 0 outside main
    role_winners,           \* main: the winners printed for the roles counted
    call                    \* the call of a function on its own, and what it returned

vars == << votes, n_winners, quota, candidates, remaining_candidates,
           winning_candidates, result_record, allow_random_tiebreak, round,
           pc, err, transcript, sort_order, roles, xrole, role_winners,
           call >>

---------------------------------------------------------------------------
(* Vote                                                                    *)

Vote(voterow) == [vote |-> voterow, value |-> 1]

\* A voting_for that does not re-rank within valid_candidates: the candidate
\* whose raw rank is the preference, if it is a valid one.
voting_for_RawRank(v, valid_candidates, preference) ==
    LET requested == {c \in Range(valid_candidates) : v.vote[c] = preference}
    IN  IF requested = {} THEN None ELSE CHOOSE c \in requested : TRUE

\* A voting_for that compares the rank with the preference itself, the first
\* preference not brought to 0.
voting_for_ZeroBased(v, valid_candidates, preference) ==
    LET active == {c \in Range(valid_candidates) : v.vote[c] # NaN}
        Before(d, c) ==
            \/ v.vote[d] < v.vote[c]
            \/ /\ v.vote[d] = v.vote[c]
               /\ Position(sort_order, d) < Position(sort_order, c)
        pointing_to == [c \in active |-> Cardinality({d \in active : Before(d, c)})]
        requested == {c \in active : pointing_to[c] = preference}
    IN  IF requested = {} THEN None ELSE CHOOSE c \in requested : TRUE

\* Vote.voting_for: the cells of valid_candidates, NaNs removed, ranked by
\* argsort().argsort(); the candidate whose rank is preference - 1, or None.
voting_for(v, valid_candidates, preference) ==
    LET active == {c \in Range(valid_candidates) : v.vote[c] # NaN}
        Before(d, c) ==
            \/ v.vote[d] < v.vote[c]
            \/ /\ v.vote[d] = v.vote[c]
               /\ Position(sort_order, d) < Position(sort_order, c)
        pointing_to == [c \in active |-> Cardinality({d \in active : Before(d, c)})]
        requested == {c \in active : pointing_to[c] = preference - 1}
    IN  IF requested = {} THEN None ELSE CHOOSE c \in requested : TRUE

---------------------------------------------------------------------------
(* ElectionManager                                                         *)

\* A quota without the + 1 (the Hare-style slip).
DroopQuota_NoPlusOne(n_votes, seats) == n_votes \div (seats + 1)

\* __init__: the Droop quota of the table it is given.
DroopQuota(n_votes, seats) == (n_votes \div (seats + 1)) + 1

\* A total that counts every vote ranking the candidate, whatever its rank.
CandidateTotal_AnyRank(candidate, cands) ==
    SumSeq([i \in DOMAIN votes |->
               IF votes[i].vote[candidate] # NaN THEN votes[i].value ELSE 0])

\* calculate_total: one row per candidate, the values of the votes going to it.
CandidateTotal(candidate, cands) ==
    SumSeq([i \in DOMAIN votes |->
               IF voting_for(votes[i], cands, 1) = candidate
               THEN votes[i].value ELSE 0])

calculate_total(cands) ==
    [i \in DOMAIN cands |->
        [Candidate |-> cands[i], Total |-> CandidateTotal(cands[i], cands)]]

\* pd.DataFrame([]) has no column: calculate_total raises AttributeError on
\* vote_table.Candidate when there is no vote and a candidate to total.
calculate_total_raises(cands) == votes = <<>> /\ cands # <<>>

\* The candidates of the rows with the greatest Total (max for min).
find_lowest_candidates_Highest(resulttable) ==
    IF resulttable = <<>> THEN <<>>
    ELSE LET maxtotal == Max({resulttable[i].Total : i \in DOMAIN resulttable})
             highest == SelectSeq(resulttable, LAMBDA row : row.Total = maxtotal)
         IN  [i \in DOMAIN highest |-> highest[i].Candidate]

\* find_lowest_candidates: the candidates of the rows with the least Total.
find_lowest_candidates(resulttable) ==
    IF resulttable = <<>> THEN <<>>
    ELSE LET mintotal == Min({resulttable[i].Total : i \in DOMAIN resulttable})
             lowest == SelectSeq(resulttable, LAMBDA row : row.Total = mintotal)
         IN  [i \in DOMAIN lowest |-> lowest[i].Candidate]

\* The rows of a result that belong to the tied candidates.
TiedRows(resulttable, tied_candidates) ==
    SelectSeq(resulttable, LAMBDA row : row.Candidate \in Range(tied_candidates))

\* A scan from the first round on: the oldest round in which one tied
\* candidate alone has the least recorded total.
backwards_from_Oldest(r, tied_candidates) ==
    LET Lowest(q) == find_lowest_candidates(TiedRows(result_record[q], tied_candidates))
        found == {q \in 1..r : Len(Lowest(q)) = 1}
    IN  IF found = {} THEN [candidate |-> None, round |-> 0]
        ELSE [candidate |-> Lowest(Min(found))[1], round |-> Min(found)]

\* backwards_tiebreak: from the most recent round to the first, the first
\* round in which one tied candidate alone has the least recorded total.
RECURSIVE backwards_from(_, _)
backwards_from(r, tied_candidates) ==
    IF r = 0 THEN [candidate |-> None, round |-> 0]
    ELSE LET eliminated ==
                 find_lowest_candidates(TiedRows(result_record[r], tied_candidates))
         IN  IF Len(eliminated) = 1
             THEN [candidate |-> eliminated[1], round |-> r]
             ELSE backwards_from(r - 1, tied_candidates)

backwards_tiebreak(tied_candidates) ==
    backwards_from(Len(result_record), tied_candidates)

\* preference_tiebreak: the votes involved in the tie in the current round.
active_votes(tied_candidates) ==
    SelectSeq(votes, LAMBDA v :
        voting_for(v, remaining_candidates, 1) \in Range(tied_candidates))

\* A level counted against the remaining candidates, not against all.
preference_result_Remaining(tied_candidates, pref) ==
    LET active == active_votes(tied_candidates)
    IN  [i \in DOMAIN tied_candidates |->
            [Candidate |-> tied_candidates[i],
             Total |-> SumSeq([j \in DOMAIN active |->
                          IF voting_for(active[j], remaining_candidates, pref)
                                 = tied_candidates[i]
                          THEN active[j].value ELSE 0])]]

\* The result of one preference level: for each tied candidate the value of
\* the active votes whose pref-th preference over all candidates it is.
preference_result(tied_candidates, pref) ==
    LET active == active_votes(tied_candidates)
    IN  [i \in DOMAIN tied_candidates |->
            [Candidate |-> tied_candidates[i],
             Total |-> SumSeq([j \in DOMAIN active |->
                          IF voting_for(active[j], candidates, pref) = tied_candidates[i]
                          THEN active[j].value ELSE 0])]]

\* The last preference level of the scan: range(1, len(self.candidates)).
LastPreference == Len(candidates) - 1

RECURSIVE preference_from(_, _)
preference_from(pref, tied_candidates) ==
    LET lowest == find_lowest_candidates(preference_result(tied_candidates, pref))
    IN  IF Len(lowest) = 1
        THEN [kind |-> "found", stage |-> "preference", candidate |-> lowest[1],
              at |-> pref, lowest |-> lowest, error |-> ""]
        ELSE IF pref < LastPreference
        THEN preference_from(pref + 1, tied_candidates)
        ELSE [kind |-> "tie", stage |-> "preference", candidate |-> None,
              at |-> pref, lowest |-> lowest, error |-> ""]

\* With no active vote the table of a level is pd.DataFrame([]), which has
\* no Candidate column: AttributeError at the first level. With no level to
\* scan, pd.concat([]) raises ValueError after the loop.
preference_tiebreak(tied_candidates) ==
    IF LastPreference < 1
    THEN [kind |-> "raise", stage |-> "preference", candidate |-> None,
          at |-> 0, lowest |-> <<>>,
          error |-> "ValueError: No objects to concatenate"]
    ELSE IF active_votes(tied_candidates) = <<>>
    THEN [kind |-> "raise", stage |-> "preference", candidate |-> None,
          at |-> 1, lowest |-> <<>>, error |-> "AttributeError: Candidate"]
    ELSE preference_from(1, tied_candidates)

\* tiebreak: backwards first, raw preferences if that fails.
tiebreak(tied_candidates) ==
    LET back == backwards_tiebreak(tied_candidates)
    IN  IF back.candidate # None
        THEN [kind |-> "found", stage |-> "backwards", candidate |-> back.candidate,
              at |-> back.round, lowest |-> <<back.candidate>>, error |-> ""]
        ELSE preference_tiebreak(tied_candidates)

\* A removal that rebuilds the list from all candidates, bringing back the
\* candidates taken out before.
RemoveCandidate_FromAll(cands, candidate) ==
    SelectSeq(candidates, LAMBDA c : c # candidate)

\* list.pop() for list.remove: the last candidate of the list taken out.
RemoveCandidate_Pop(cands, candidate) == SubSeq(cands, 1, Len(cands) - 1)

\* list.remove: the first occurrence of the candidate taken out.
RemoveCandidate(cands, candidate) ==
    LET i == Position(cands, candidate)
    IN  SubSeq(cands, 1, i - 1) \o SubSeq(cands, i + 1, Len(cands))

\* One round too many: range(1, len(self.candidates) + 2).
RoundLimit_OneMore == Len(candidates) + 1

\* One round per column of the role's table, the excluded ones included.
RoundLimit_AllColumns == Len(AllCandidates)

\* range(1, len(self.candidates) + 1): the number of the last round.
RoundLimit == Len(candidates)

WithRound(resulttable, r) ==
    [i \in DOMAIN resulttable |->
        [Candidate |-> resulttable[i].Candidate,
         Total |-> resulttable[i].Total, Round |-> r]]

---------------------------------------------------------------------------
(* The state ElectionManager.__init__ leaves, for a table as the entry     *)
(* points pass it: the role's table with the excluded columns dropped.     *)
(* allow_random_tiebreak is False after __init__; a caller that wants the  *)
(* random fallback sets it before run.                                     *)
Init ==
    \E table \in VotingTables, excluded \in SUBSET CandidateSet,
       seats \in 1..MaxSeats, random \in BOOLEAN :
        LET election_table == remove_excluded_candidates(table, excluded)
            columns == remove_excluded_columns(Columns(table), excluded)
        IN  /\ votes = [i \in DOMAIN election_table |-> Vote(election_table[i])]
            /\ n_winners = seats
            /\ quota = DroopQuota(Len(election_table), seats)
            /\ candidates = columns
            /\ remaining_candidates = columns
            /\ winning_candidates = <<>>
            /\ result_record = <<>>
            /\ allow_random_tiebreak = random
            /\ round = 0
            /\ pc = "loop"
            /\ err = ""
            /\ transcript = <<>>
            /\ sort_order \in IF HasTiedRanks(election_table)
                              THEN SeqPermutations(columns) ELSE {columns}
            /\ roles = <<>>
            /\ xrole = 0
            /\ role_winners = <<>>
            /\ call = NoCall

Raise(e) ==
    /\ pc' = "error"
    /\ err' = e

\* run, lines 190-194: the next round is tallied and recorded.
Tally ==
    /\ pc = "loop"
    /\ round < RoundLimit
    /\ round' = round + 1
    /\ IF calculate_total_raises(remaining_candidates)
       THEN /\ Raise("AttributeError: Candidate")
            /\ UNCHANGED result_record
       ELSE /\ result_record' =
                Append(result_record,
                       WithRound(calculate_total(remaining_candidates), round + 1))
            /\ pc' = "quota"
            /\ UNCHANGED err
    /\ UNCHANGED << votes, n_winners, quota, candidates, remaining_candidates,
                    winning_candidates, allow_random_tiebreak, transcript,
                    sort_order, roles, xrole, role_winners, call >>

\* run, lines 196-213: the candidates at or over the quota win. With the
\* seats filled the loop breaks and the winners are printed; with seats
\* left, the surplus transfer reads `.value` of a Series, which raises
\* AttributeError before any vote's value is changed.
QuotaCheck ==
    /\ pc = "quota"
    /\ LET result == result_record[Len(result_record)]
           winning == SelectSeq(result, LAMBDA row : row.Total >= quota)
           winners == [i \in DOMAIN winning |-> winning[i].Candidate]
       IN  IF result = <<>>
           THEN /\ Raise("AttributeError: Total")
                /\ UNCHANGED winning_candidates
           ELSE IF winning = <<>>
           THEN /\ pc' = "eliminate"
                /\ UNCHANGED << winning_candidates, err >>
           ELSE /\ winning_candidates' = winning_candidates \o winners
                /\ IF Len(winning_candidates') = n_winners
                   THEN pc' = "done" /\ UNCHANGED err
                   ELSE IF Len(winning_candidates') < n_winners
                   THEN Raise("AttributeError: value")
                   ELSE Raise("AssertionError: more winners than allowed")
    /\ UNCHANGED << votes, n_winners, quota, candidates, remaining_candidates,
                    result_record, allow_random_tiebreak, round, transcript,
                    sort_order, roles, xrole, role_winners, call >>

\* The elimination of one candidate, printed by run. list.remove raises
\* ValueError for a candidate that is not in the list.
Eliminated(candidate, tied, stage, at) ==
    IF candidate \in Range(remaining_candidates)
    THEN /\ remaining_candidates' = RemoveCandidate(remaining_candidates, candidate)
         /\ transcript' = Append(transcript,
                 [round |-> round, eliminated |-> candidate, tied |-> tied,
                  stage |-> stage, at |-> at])
         /\ pc' = "loop"
         /\ UNCHANGED err
    ELSE /\ Raise("ValueError: list.remove(x): x not in list")
         /\ UNCHANGED << remaining_candidates, transcript >>

\* run, lines 215-225: the lowest candidate of the round is eliminated, a
\* tie going through tiebreak.
Eliminate ==
    /\ pc = "eliminate"
    /\ LET result == result_record[Len(result_record)]
           eliminated_candidate_list == find_lowest_candidates(result)
       IN  IF Len(eliminated_candidate_list) > 1
           THEN LET t == tiebreak(eliminated_candidate_list)
                IN  CASE t.kind = "found" ->
                            Eliminated(t.candidate, eliminated_candidate_list,
                                       t.stage, t.at)
                      [] t.kind = "raise" ->
                            /\ Raise(t.error)
                            /\ UNCHANGED << remaining_candidates, transcript >>
                      [] t.kind = "tie" /\ allow_random_tiebreak ->
                            \E i \in DOMAIN t.lowest :
                                Eliminated(t.lowest[i], eliminated_candidate_list,
                                           "random", t.at)
                      [] t.kind = "tie" /\ ~allow_random_tiebreak ->
                            /\ Raise("AssertionError: total tie")
                            /\ UNCHANGED << remaining_candidates, transcript >>
           ELSE IF Len(eliminated_candidate_list) = 0
           THEN /\ Raise("AssertionError: no lowest candidate")
                /\ UNCHANGED << remaining_candidates, transcript >>
           ELSE Eliminated(eliminated_candidate_list[1], <<>>, "none", 0)
    /\ UNCHANGED << votes, n_winners, quota, candidates, winning_candidates,
                    result_record, allow_random_tiebreak, round, sort_order,
                    roles, xrole, role_winners, call >>

\* run, line 227: the rounds are over and the winners are printed.
Finish ==
    /\ pc = "loop"
    /\ round >= RoundLimit
    /\ pc' = "done"
    /\ UNCHANGED << votes, n_winners, quota, candidates, remaining_candidates,
                    winning_candidates, result_record, allow_random_tiebreak,
                    round, err, transcript, sort_order, roles, xrole,
                    role_winners, call >>

Next == Tally \/ QuotaCheck \/ Eliminate \/ Finish

Spec == Init /\ [][Next]_vars

---------------------------------------------------------------------------
(* main: every role of the input counted in turn, each by a manager of its *)
(* own, with one seat, no excluded column and no random tiebreak. The rows *)
(* of the input are the voters, so every role's table has the same number  *)
(* of rows.                                                                *)

\* Four voters, two for A and two for B: a tie nothing separates.
DeadHeatTable ==
    << Row(1, NaN, NaN), Row(1, NaN, NaN), Row(NaN, 1, NaN), Row(NaN, 1, NaN) >>

NamedTables == {ExampleTable, LookbackTable, DeadHeatTable}

\* The tables a role of an input of n voters can have.
RoleTables(n) ==
    IF n <= MaxRoleBallots
    THEN {t \in TablesFrom(n, 0) : Len(t) = n}
    ELSE {t \in NamedTables : Len(t) = n}

MainInit ==
    \E n \in (0..MaxRoleBallots) \cup {Len(t) : t \in NamedTables},
       k \in 1..MaxRoles :
        \E mastertable \in [1..k -> RoleTables(n)] :
            /\ roles = mastertable
            /\ xrole = 1
            /\ role_winners = <<>>
            /\ call = NoCall
            /\ votes = [i \in DOMAIN mastertable[1] |-> Vote(mastertable[1][i])]
            /\ n_winners = 1
            /\ quota = DroopQuota(Len(mastertable[1]), 1)
            /\ candidates = AllCandidates
            /\ remaining_candidates = AllCandidates
            /\ winning_candidates = <<>>
            /\ result_record = <<>>
            /\ allow_random_tiebreak = FALSE
            /\ round = 0
            /\ pc = "loop"
            /\ err = ""
            /\ transcript = <<>>
            /\ sort_order \in IF \E r \in 1..k : HasTiedRanks(mastertable[r])
                              THEN SeqPermutations(AllCandidates)
                              ELSE {AllCandidates}

\* main, lines 368-373: run has returned for the role (its winners printed,
\* line 227) and the loop goes on to the next role, or main returns. An
\* exception of run is caught nowhere: it ends main, with no step left.
MainLoop ==
    /\ pc = "done"
    /\ xrole \in DOMAIN roles
    /\ role_winners' = Append(role_winners, winning_candidates)
    /\ IF xrole < Len(roles)
       THEN LET election_table == roles[xrole + 1]
            IN  /\ xrole' = xrole + 1
                /\ votes' = [i \in DOMAIN election_table |-> Vote(election_table[i])]
                /\ quota' = DroopQuota(Len(election_table), 1)
                /\ remaining_candidates' = AllCandidates
                /\ winning_candidates' = <<>>
                /\ result_record' = <<>>
                /\ round' = 0
                /\ pc' = "loop"
                /\ transcript' = <<>>
       ELSE /\ pc' = "exit"
            /\ UNCHANGED << xrole, votes, quota, remaining_candidates,
                            winning_candidates, result_record, round, transcript >>
    /\ UNCHANGED << n_winners, candidates, allow_random_tiebreak, err,
                    sort_order, roles, call >>

MainNext == Tally \/ QuotaCheck \/ Eliminate \/ Finish \/ MainLoop

MainSpec == MainInit /\ [][MainNext]_vars

---------------------------------------------------------------------------
(* Vote.voting_for and discard_informal_votes called on their own, on any  *)
(* ballot and any table of rows whose cells are a rank 1..3 or NaN.        *)

AnyRows == [CandidateSet -> 0..Len(AllCandidates)]

\* The lists of candidates a caller can pass: the candidates in any order.
CandidateLists == UNION {SeqPermutations(remove_excluded_columns(AllCandidates, excluded)) :
                            excluded \in SUBSET CandidateSet}

\* The tables of at most n rows, in every order of the rows.
RECURSIVE AnyTables(_)
AnyTables(n) ==
    IF n = 0 THEN {<<>>}
    ELSE LET shorter == AnyTables(n - 1)
         IN  shorter \cup {Append(t, r) : t \in {x \in shorter : Len(x) = n - 1},
                                          r \in AnyRows}

\* The manager of a table, before run, with nothing called yet.
Constructed(table) ==
    /\ votes = [i \in DOMAIN table |-> Vote(table[i])]
    /\ n_winners = 1
    /\ quota = DroopQuota(Len(table), 1)
    /\ candidates = AllCandidates
    /\ remaining_candidates = AllCandidates
    /\ winning_candidates = <<>>
    /\ result_record = <<>>
    /\ allow_random_tiebreak = FALSE
    /\ round = 0
    /\ pc = "call"
    /\ err = ""
    /\ transcript = <<>>
    /\ sort_order \in IF HasTiedRanks(table)
                      THEN SeqPermutations(AllCandidates) ELSE {AllCandidates}
    /\ xrole = 0
    /\ role_winners = <<>>
    /\ call = NoCall

\* A Vote of one row.
VoteInit ==
    \E voterow \in AnyRows :
        /\ Constructed(<<voterow>>)
        /\ roles = <<>>

\* Vote.voting_for, lines 341-357, called once: it reads self.vote and
\* assigns nothing to self.
CallVotingFor ==
    /\ pc = "call"
    /\ call.name = "none"
    /\ votes # <<>>
    /\ \E valid_candidates \in CandidateLists,
          preference \in 1..(Len(AllCandidates) + 1) :
           call' = [name |-> "voting_for", self |-> votes[1],
                    valid_candidates |-> valid_candidates,
                    preference |-> preference,
                    returned |-> voting_for(votes[1], valid_candidates, preference)]
    /\ UNCHANGED << votes, n_winners, quota, candidates, remaining_candidates,
                    winning_candidates, result_record, allow_random_tiebreak,
                    round, pc, err, transcript, sort_order, roles, xrole,
                    role_winners >>

VoteSpec == VoteInit /\ [][CallVotingFor]_vars

\* The table of a role as retrieve_role_voting_table returns it.
DiscardInit ==
    \E table \in AnyTables(MaxTableRows) :
        /\ Constructed(<<>>)
        /\ roles = <<table>>

\* discard_informal_votes, lines 112-131, called once on the table.
CallDiscard ==
    /\ pc = "call"
    /\ call.name = "none"
    /\ roles # <<>>
    /\ call' = [name |-> "discard_informal_votes", voting_table |-> roles[1],
                returned |-> discard_informal_votes(roles[1])]
    /\ UNCHANGED << votes, n_winners, quota, candidates, remaining_candidates,
                    winning_candidates, result_record, allow_random_tiebreak,
                    round, pc, err, transcript, sort_order, roles, xrole,
                    role_winners >>

DiscardSpec == DiscardInit /\ [][CallDiscard]_vars

---------------------------------------------------------------------------
(* Claims                                                                  *)

Terminated == pc \in {"done", "error"}

\* C1: in every reachable state of run the winners list holds at most
\* n_winners candidates, and the "more winners than allowed" branch
\* (line 213) is never taken.
C1_WinnersWithinSeats ==
    /\ Len(winning_candidates) <= n_winners
    /\ err # "AssertionError: more winners than allowed"

\* Two candidates reach the quota in the same round and fill both seats.
C1_Witness ==
    /\ pc = "done"
    /\ n_winners = 2
    /\ Len(winning_candidates) = 2

\* The steps run has left at most: three per round still to come, and the
\* rest of the current round.
StepsLeft ==
    3 * (Len(candidates) - round)
      + (CASE pc = "loop" -> 1 [] pc = "eliminate" -> 2 [] pc = "quota" -> 3
           [] OTHER -> 0)

\* C2 (amended): the round number never exceeds the number of candidates,
\* and every run stops: it reaches done, or it stops with a raised error.
\* run is sequential code, which goes on until it returns or raises, so it
\* stops if it cannot go on for ever: every step takes at least one off a
\* counter that is never below zero, and a run is over within
\* 3 * candidateCount + 1 steps.
C2_StopsWithinRounds ==
    /\ [](round <= Len(candidates))
    /\ [](StepsLeft >= 0)
    /\ [][StepsLeft' < StepsLeft]_vars

\* A run that needs every round: three candidates, done after round 3.
C2_Witness ==
    /\ pc = "done"
    /\ Len(candidates) = 3
    /\ round = 3
    /\ Len(result_record) = 3

\* C2 as stated: the round number never exceeds the number of candidates and
\* every run reaches done, so that no run stops in the failure run raises on
\* a total tie (line 328), which is a terminal state other than done.
C2_AlwaysReachesDone ==
    /\ round <= Len(candidates)
    /\ ~(pc = "error" /\ err = "AssertionError: total tie")

\* The run on the worked example with one seat.
IsExample ==
    /\ votes = [i \in DOMAIN ExampleTable |-> Vote(ExampleTable[i])]
    /\ candidates = AllCandidates
    /\ n_winners = 1

Totals(resulttable) ==
    [i \in DOMAIN resulttable |->
        <<resulttable[i].Candidate, resulttable[i].Total>>]

\* C3: on the worked example the quota is 3, round 1 records A=2, B=2, C=1,
\* C is eliminated in round 1 without a tiebreak, round 2 records A=3, B=2,
\* and the run ends in round 2 with winners [A]; B is never eliminated.
C3_WorkedExample ==
    IsExample =>
        /\ quota = 3
        /\ pc # "error"
        /\ round <= 2
        /\ Len(result_record) >= 1 =>
               Totals(result_record[1]) = << <<"A", 2>>, <<"B", 2>>, <<"C", 1>> >>
        /\ Len(result_record) >= 2 =>
               Totals(result_record[2]) = << <<"A", 3>>, <<"B", 2>> >>
        /\ transcript \in
               { <<>>,
                 << [round |-> 1, eliminated |-> "C", tied |-> <<>>,
                     stage |-> "none", at |-> 0] >> }
        /\ "B" \in Range(remaining_candidates)
        /\ winning_candidates \in { <<>>, <<"A">> }
        /\ round = 2 /\ pc \in {"eliminate", "loop"} => FALSE
        /\ pc = "done" =>
               /\ round = 2
               /\ winning_candidates = <<"A">>
               /\ Len(transcript) = 1

\* The example run has ended, in round 2.
C3_Witness ==
    /\ IsExample
    /\ pc = "done"
    /\ round = 2
    /\ winning_candidates = <<"A">>

\* The table run counts, as rows.
VotingTable == [i \in DOMAIN votes |-> votes[i].vote]

\* C4: the quota is floor(N / (seats + 1)) + 1 with N the number of formal
\* ballots of the role, in every state of a run. Stated for a run on the
\* role's whole table (no excluded column).
C4_QuotaOfFormalBallots ==
    candidates = AllCandidates =>
        quota = (Len(discard_informal_votes(VotingTable)) \div (n_winners + 1)) + 1

RoundCandidates(resulttable) ==
    [i \in DOMAIN resulttable |-> resulttable[i].Candidate]

\* The value the formal votes give a candidate among cands.
FormalTotal(candidate, cands) ==
    SumSeq([i \in DOMAIN votes |->
               IF ~InformalVote(votes[i].vote)
                  /\ voting_for(votes[i], cands, 1) = candidate
               THEN votes[i].value ELSE 0])

\* C5: informal ballots are discarded before the first round: no recorded
\* total of any round includes the value of an informal ballot. Stated for a
\* run on the role's whole table (no excluded column).
C5_NoInformalBallotCounted ==
    candidates = AllCandidates =>
        \A r \in DOMAIN result_record :
            \A i \in DOMAIN result_record[r] :
                result_record[r][i].Total =
                    FormalTotal(result_record[r][i].Candidate,
                                RoundCandidates(result_record[r]))

\* The candidates tied for the lowest total of the current round.
TiedLowest == find_lowest_candidates(result_record[Len(result_record)])

\* Neither stage separates the tied candidates: no recorded round has one of
\* them alone at the least recorded total, and no scanned preference level
\* has one of them alone at the least total.
Unseparated ==
    /\ pc = "eliminate"
    /\ Len(TiedLowest) > 1
    /\ \A r \in DOMAIN result_record :
           Len(find_lowest_candidates(TiedRows(result_record[r], TiedLowest))) # 1
    /\ \A p \in 1..LastPreference :
           Len(find_lowest_candidates(preference_result(TiedLowest, p))) # 1

\* C6: with random tiebreak disabled, a tie that neither stage separates ends
\* the run in the unresolved-tie error: no candidate is eliminated, no further
\* round is counted (nothing happens after the error) and no winners are
\* announced.
C6_UnresolvedTieRaises ==
    [][ /\ pc # "error"
        /\ (Unseparated /\ ~allow_random_tiebreak) =>
              /\ pc' = "error"
              /\ err' = "AssertionError: total tie"
              /\ winning_candidates' = <<>>
              /\ UNCHANGED << remaining_candidates, result_record, transcript >>
      ]_vars

OpenSeats == n_winners - Len(winning_candidates)

\* C7: when the elimination of a round leaves as many candidates as there are
\* open seats (and at least one), the run ends with those candidates declared
\* winners.
C7_RemainingFillOpenSeats ==
    [][ ( /\ pc = "eliminate"
          /\ pc' # "error"
          /\ Len(remaining_candidates') = OpenSeats'
          /\ Len(remaining_candidates') > 0 ) =>
              /\ pc' = "done"
              /\ winning_candidates' = winning_candidates \o remaining_candidates'
      ]_vars

\* C8: with seats >= the number of candidates of the table the election is
\* rejected before any round is tallied: the round history stays empty and no
\* winner is produced.
C8_TooManySeatsRejected ==
    n_winners >= Len(candidates) =>
        /\ result_record = <<>>
        /\ winning_candidates = <<>>

RoundSum(resulttable) ==
    SumSeq([i \in DOMAIN resulttable |-> resulttable[i].Total])

\* C9: the recorded totals of round r + 1 sum to at most the recorded totals
\* of round r, for every two consecutive rounds of a run.
C9_PoolNeverGrows ==
    \A r \in DOMAIN result_record :
        r + 1 \in DOMAIN result_record =>
            RoundSum(result_record[r + 1]) <= RoundSum(result_record[r])

\* A second round whose pool is smaller than the first round's, and not
\* empty: a ballot was exhausted by the elimination.
C9_Witness ==
    /\ Len(result_record) >= 2
    /\ RoundSum(result_record[2]) < RoundSum(result_record[1])
    /\ RoundSum(result_record[2]) > 0

\* The vote ranks at least one candidate of S.
RanksSome(v, S) == \E c \in S : v.vote[c] # NaN

\* The vote ranks candidate c, and no candidate of S better.
RanksBest(v, c, S) ==
    /\ v.vote[c] # NaN
    /\ \A d \in S : v.vote[d] # NaN => v.vote[c] <= v.vote[d]

\* C10: in every recorded round the totals of the candidates remaining at
\* its start sum to the value of the ballots ranking at least one of them;
\* a ballot ranking none of them adds to no total, and a ballot adds to one
\* total only (a candidate's total holds no more than the ballots that rank
\* nobody remaining better).
C10_TotalsAreTheLiveBallots ==
    \A r \in DOMAIN result_record :
        LET resulttable == result_record[r]
            S == Range(RoundCandidates(resulttable))
        IN  /\ RoundSum(resulttable) =
                   SumSeq([j \in DOMAIN votes |->
                              IF RanksSome(votes[j], S) THEN votes[j].value ELSE 0])
            /\ \A i \in DOMAIN resulttable :
                   resulttable[i].Total <=
                       SumSeq([j \in DOMAIN votes |->
                                  IF RanksBest(votes[j], resulttable[i].Candidate, S)
                                  THEN votes[j].value ELSE 0])

\* A later round with an exhausted ballot beside ballots that still count.
C10_Witness ==
    /\ Len(result_record) >= 2
    /\ LET resulttable == result_record[Len(result_record)]
           S == Range(RoundCandidates(resulttable))
       IN  /\ \E j \in DOMAIN votes :
                  ~RanksSome(votes[j], S) /\ ~InformalVote(votes[j].vote)
           /\ \E i \in DOMAIN resulttable : resulttable[i].Total >= 2

\* C11: when main counts several roles and the election of one role ends in
\* the unresolved-tie error, every other role is still counted (a winners
\* list is printed for each of them) and the failing role has no winners
\* list. The error state is the last state of main (no step follows it), so
\* the lists printed by then are all the lists main prints.
C11_OtherRolesCounted ==
    (xrole \in DOMAIN roles /\ pc = "error" /\ err = "AssertionError: total tie") =>
        /\ Len(role_winners) = Len(roles) - 1
        /\ winning_candidates = <<>>

\* The rows of the current round's result that reach the quota.
NewlyElected ==
    LET result == result_record[Len(result_record)]
    IN  {i \in DOMAIN result : result[i].Total >= quota}

\* C12: in a round where a candidate reaches the quota and seats remain open
\* after electing them, the quota step multiplies the value of each ballot
\* whose top preference among the candidates remaining at the start of the
\* round is a newly elected candidate of round total T by (T - quota) / T,
\* that is value' * T = value * (T - quota), and leaves every other ballot
\* as it is; in a round that fills the last seat no ballot value changes.
C12_SurplusTransferred ==
    [][ pc = "quota" =>
          LET result == result_record[Len(result_record)]
              ElectedFor(v) ==
                  {i \in NewlyElected :
                      voting_for(v, remaining_candidates, 1) = result[i].Candidate}
          IN  IF /\ NewlyElected # {}
                 /\ Len(winning_candidates) + Cardinality(NewlyElected) < n_winners
              THEN /\ pc' # "error"
                   /\ DOMAIN votes' = DOMAIN votes
                   /\ \A j \in DOMAIN votes :
                          /\ votes'[j].vote = votes[j].vote
                          /\ IF ElectedFor(votes[j]) = {}
                             THEN votes'[j].value = votes[j].value
                             ELSE \A i \in ElectedFor(votes[j]) :
                                      votes'[j].value * result[i].Total =
                                          votes[j].value * (result[i].Total - quota)
              ELSE votes' = votes
      ]_vars

\* The total the current round records for a candidate.
RoundTotal(candidate) ==
    LET result == result_record[Len(result_record)]
    IN  result[CHOOSE i \in DOMAIN result : result[i].Candidate = candidate].Total

\* A remaining candidate, not elected, whose round total is minimal among the
\* remaining candidates.
LowestRemaining(c) ==
    /\ c \in Range(remaining_candidates)
    /\ c \notin Range(winning_candidates)
    /\ \A d \in Range(remaining_candidates) : RoundTotal(c) <= RoundTotal(d)

\* The step eliminates exactly the candidate c and the count goes on.
EliminatesOnly(c) ==
    /\ remaining_candidates' = RemoveCandidate(remaining_candidates, c)
    /\ Len(remaining_candidates') = Len(remaining_candidates) - 1
    /\ pc' = "loop"
    /\ Len(transcript') = Len(transcript) + 1
    /\ transcript'[Len(transcript')].eliminated = c

\* When one remaining candidate alone holds the minimum, it is the one
\* eliminated, and the tiebreak is not invoked.
UniqueLowestDirectly ==
    \A c \in Range(remaining_candidates) :
        (\A d \in Range(remaining_candidates) \ {c} : RoundTotal(c) < RoundTotal(d)) =>
            /\ EliminatesOnly(c)
            /\ transcript'[Len(transcript')].stage = "none"
            /\ transcript'[Len(transcript')].tied = <<>>

\* C13 (amended): in every round that reaches the elimination step, either
\* exactly one candidate is eliminated, a remaining and not elected candidate
\* whose round total is minimal among the remaining candidates, or the
\* minimum is tied, the tiebreak raises and no candidate is eliminated; a
\* minimum held by one remaining candidate alone eliminates that candidate
\* without the tiebreak.
C13_EliminatesOneLowestOrRaises ==
    [][ pc = "eliminate" =>
          /\ \/ \E c \in Range(remaining_candidates) :
                    LowestRemaining(c) /\ EliminatesOnly(c)
             \/ /\ pc' = "error"
                /\ Len(TiedLowest) > 1
                /\ UNCHANGED << remaining_candidates, transcript >>
          /\ UniqueLowestDirectly
      ]_vars

\* An election with an elimination without a tie and one by the tiebreak.
C13_Witness ==
    /\ \E i \in DOMAIN transcript : transcript[i].stage = "none"
    /\ \E i \in DOMAIN transcript : transcript[i].stage \in {"backwards", "preference"}

\* C13 as stated: every round that reaches the elimination step eliminates
\* exactly one candidate, a remaining one of minimal round total. Stated for
\* the steps in which the tied candidates hold a vote (a tie with no vote
\* fails in preference_tiebreak before it is decided).
C13_AlwaysEliminatesOne ==
    [][ (pc = "eliminate" /\ err' # "AttributeError: Candidate") =>
          /\ \E c \in Range(remaining_candidates) :
                 LowestRemaining(c) /\ EliminatesOnly(c)
          /\ UniqueLowestDirectly
      ]_vars

\* The candidates run has eliminated so far.
EliminatedSet == {transcript[i].eliminated : i \in DOMAIN transcript}

\* The remaining list, the winners list and the eliminated candidates cover
\* the candidates, the eliminated ones are in neither list, and no list holds
\* a candidate twice.
StatusLists ==
    LET remaining == Range(remaining_candidates)
        winners == Range(winning_candidates)
    IN  /\ remaining \cap EliminatedSet = {}
        /\ winners \cap EliminatedSet = {}
        /\ remaining \cup winners \cup EliminatedSet = Range(candidates)
        /\ Cardinality(winners) = Len(winning_candidates)
        /\ Cardinality(remaining) = Len(remaining_candidates)

\* C14 (amended): as C14, but the remaining list and the winners list are
\* disjoint only while the count goes on: the candidates elected in the round
\* that ends the run are in the winners list and still in the remaining
\* list. No candidate ever enters the remaining list.
C14_OneStatusWhileCounting ==
    /\ [](StatusLists)
    /\ [](~Terminated =>
             Range(remaining_candidates) \cap Range(winning_candidates) = {})
    /\ [](Terminated /\ winning_candidates # <<>> =>
             LET result == result_record[Len(result_record)]
             IN  Range(winning_candidates) =
                     {result[i].Candidate : i \in NewlyElected})
    /\ [][Range(remaining_candidates') \subseteq Range(remaining_candidates)]_vars

\* A run that ends with a candidate elected after another was eliminated.
C14_Witness ==
    /\ pc = "done"
    /\ Len(winning_candidates) = 1
    /\ Len(transcript) >= 1
    /\ winning_candidates[1] \in Range(remaining_candidates)

\* C14: in every reachable state of a run each candidate has exactly one
\* status: the remaining list, the winners list and the set of eliminated
\* candidates are pairwise disjoint and together cover the candidates, and no
\* candidate is twice in winners. Winners and eliminations are only ever
\* added, so a candidate that left the remaining list and were back in it
\* would be in two of the three at once.
C14_OneStatusEach ==
    LET remaining == Range(remaining_candidates)
        winners == Range(winning_candidates)
    IN  /\ remaining \cap winners = {}
        /\ remaining \cap EliminatedSet = {}
        /\ winners \cap EliminatedSet = {}
        /\ remaining \cup winners \cup EliminatedSet = Range(candidates)
        /\ Cardinality(winners) = Len(winning_candidates)
        /\ Cardinality(remaining) = Len(remaining_candidates)

\* C15: no round is tallied and no quota check or elimination is attempted
\* with an empty remaining list: once the list is empty run is at the end of
\* its loop (the only step left prints the winners) or has returned, and no
\* recorded round is the tally of no candidate.
C15_NoRoundOnEmpty ==
    /\ remaining_candidates = <<>> =>
           \/ pc = "done"
           \/ pc = "loop" /\ round >= Len(candidates)
    /\ \A r \in DOMAIN result_record : result_record[r] # <<>>

\* The last of three candidates was eliminated in round 3 and run returned.
C15_Witness ==
    /\ pc = "done"
    /\ remaining_candidates = <<>>
    /\ Len(candidates) = 3
    /\ Len(transcript) = 3

\* The total round r records for a candidate.
RecordedTotal(r, candidate) ==
    LET result == result_record[r]
    IN  result[CHOOSE i \in DOMAIN result : result[i].Candidate = candidate].Total

\* In round r the tied candidate c alone has the least recorded total of the
\* tied candidates.
StrictMinimum(r, c, tied) ==
    /\ c \in tied
    /\ \A d \in tied \ {c} : RecordedTotal(r, c) < RecordedTotal(r, d)

\* The recorded rounds in which one tied candidate has the strict minimum.
SeparatingRounds(tied) ==
    {r \in DOMAIN result_record : \E c \in tied : StrictMinimum(r, c, tied)}

\* C16: for every tie among the lowest candidates, if some recorded round has
\* exactly one tied candidate at the strict minimum of the tied candidates'
\* recorded totals, the candidate with the strict minimum in the most recent
\* such round is eliminated, by the backward stage and without the preference
\* stage; with no such round the backward stage eliminates nobody (the
\* preference stage, the random choice or an error decides).
C16_BackwardStageFirst ==
    [][ (pc = "eliminate" /\ Len(TiedLowest) > 1) =>
          LET tied == Range(TiedLowest)
              rounds == SeparatingRounds(tied)
          IN  IF rounds # {}
              THEN \E c \in tied :
                      /\ StrictMinimum(Max(rounds), c, tied)
                      /\ EliminatesOnly(c)
                      /\ transcript'[Len(transcript')].stage = "backwards"
                      /\ transcript'[Len(transcript')].at = Max(rounds)
              ELSE \/ pc' = "error"
                   \/ /\ pc' = "loop"
                      /\ transcript'[Len(transcript')].stage \in {"preference", "random"}
      ]_vars

\* A third-round tie that round 2 separates one way and round 1 the other
\* way, decided by round 2.
C16_Witness ==
    \E i \in DOMAIN transcript :
        LET tied == Range(transcript[i].tied)
        IN  /\ transcript[i].stage = "backwards"
            /\ transcript[i].round = 3
            /\ transcript[i].at = 2
            /\ StrictMinimum(2, transcript[i].eliminated, tied)
            /\ \E d \in tied \ {transcript[i].eliminated} : StrictMinimum(1, d, tied)

\* The value, at preference level p, of candidate c among the ballots whose
\* top remaining preference is a tied candidate: the ballots whose level-p
\* preference over all the candidates of the table is c.
LevelSum(p, c, tied) ==
    SumSeq([j \in DOMAIN votes |->
               IF /\ voting_for(votes[j], remaining_candidates, 1) \in tied
                  /\ voting_for(votes[j], candidates, p) = c
               THEN votes[j].value ELSE 0])

\* The levels at which one tied candidate alone has the least value.
SeparatingLevels(tied) ==
    {p \in 1..(Len(candidates) - 1) :
        \E c \in tied : \A d \in tied \ {c} : LevelSum(p, c, tied) < LevelSum(p, d, tied)}

\* C17: when the preference stage runs for the tied candidates (no recorded
\* round separates them) and some level 1..candidateCount - 1 has one tied
\* candidate alone at the minimum of the level sums, the stage eliminates the
\* candidate alone at the minimum of the smallest such level, and reports
\* that level: no level above it is examined. The stage eliminates nobody
\* otherwise.
C17_PreferenceStage ==
    [][ (pc = "eliminate" /\ Len(TiedLowest) > 1) =>
          LET tied == Range(TiedLowest)
              levels == SeparatingLevels(tied)
          IN  IF SeparatingRounds(tied) = {} /\ levels # {}
              THEN \E c \in tied :
                      /\ \A d \in tied \ {c} :
                             LevelSum(Min(levels), c, tied) < LevelSum(Min(levels), d, tied)
                      /\ EliminatesOnly(c)
                      /\ transcript'[Len(transcript')].stage = "preference"
                      /\ transcript'[Len(transcript')].at = Min(levels)
              ELSE \/ pc' = "error"
                   \/ transcript'[Len(transcript')].stage # "preference"
      ]_vars

\* A first-round tie decided at level 2, level 1 having left it tied, in an
\* election with a ballot that is not involved in the tie and has a tied
\* candidate as its second preference.
C17_Witness ==
    \E i \in DOMAIN transcript :
        /\ transcript[i].stage = "preference"
        /\ transcript[i].round = 1
        /\ transcript[i].at = 2
        /\ \E j \in DOMAIN votes :
               /\ voting_for(votes[j], candidates, 1)
                      \notin Range(transcript[i].tied) \cup {None}
               /\ voting_for(votes[j], candidates, 2) \in Range(transcript[i].tied)

\* The candidates handed to np.random.choice (line 326) for the current tie:
\* the lowest candidates of the last preference level scanned.
RandomChoices == Range(tiebreak(TiedLowest).lowest)

\* C18: with random tiebreak enabled and a tie that neither stage separates,
\* the candidates the random fallback can eliminate are exactly the tied
\* candidates: the random choice is made among all of them, and the step
\* eliminates one of them. Stated for the ties in which the tied candidates
\* hold a vote (a tie with no vote fails in preference_tiebreak before it is
\* decided).
C18_RandomAmongAllTied ==
    (Unseparated /\ allow_random_tiebreak /\ active_votes(TiedLowest) # <<>>) =>
        /\ tiebreak(TiedLowest).kind = "tie"
        /\ RandomChoices = Range(TiedLowest)

\* C19: for a formal ballot, any list S of candidates and any level p >= 1,
\* voting_for(S, p) returns the candidate of S the ballot ranks with exactly
\* p - 1 candidates of S ranked strictly better, and None when the ballot
\* ranks fewer than p candidates of S; after the call the ballot has the
\* ranks and the value it had before.
C19_VotingForWithinSubset ==
    (call.name = "voting_for" /\ ~InformalVote(call.self.vote)) =>
        LET ballot == call.self.vote
            S == Range(call.valid_candidates)
            ranked == {c \in S : ballot[c] # NaN}
            Better(c) == {d \in ranked : ballot[d] < ballot[c]}
        IN  /\ IF Cardinality(ranked) < call.preference
               THEN call.returned = None
               ELSE /\ call.returned \in ranked
                    /\ Cardinality(Better(call.returned)) = call.preference - 1
            /\ votes = <<call.self>>
            /\ call.self.value = 1

\* The ballot A1, B2, C3 asked for its second preference among A and C: C.
C19_Witness ==
    /\ call.name = "voting_for"
    /\ call.self.vote = Row(1, 2, 3)
    /\ Range(call.valid_candidates) = {"A", "C"}
    /\ call.preference = 2
    /\ call.returned = "C"

\* A row is formal: it ranks k >= 1 candidates, with the ranks 1..k, each
\* used once.
FormalRow(vote) ==
    LET ranked == {c \in DOMAIN vote : vote[c] # NaN}
    IN  /\ ranked # {}
        /\ \E c \in ranked : vote[c] = 1
        /\ \E k \in 1..Cardinality(DOMAIN vote) :
               /\ {vote[c] : c \in ranked} = 1..k
               /\ Cardinality(ranked) = k

\* s is t with some rows left out, the others in their order.
RECURSIVE IsSubsequence(_, _)
IsSubsequence(s, t) ==
    IF s = <<>> THEN TRUE
    ELSE IF t = <<>> THEN FALSE
    ELSE IF Head(s) = Head(t) THEN IsSubsequence(Tail(s), Tail(t))
    ELSE IsSubsequence(s, Tail(t))

\* How many rows of t are the row r.
Count(t, r) == Cardinality({i \in DOMAIN t : t[i] = r})

\* C20: discard_informal_votes removes a row if and only if it ranks no
\* candidate, or no candidate at 1, or its ranks are not 1..k each used once;
\* every other row is kept, with its ranks and in the original order.
C20_DiscardsExactlyTheInformal ==
    call.name = "discard_informal_votes" =>
        /\ IsSubsequence(call.returned, call.voting_table)
        /\ \A r \in Range(call.voting_table) :
               Count(call.returned, r) =
                   IF FormalRow(r) THEN Count(call.voting_table, r) ELSE 0

\* A table with an informal row (a gap: ranks 1 and 3) before a formal row:
\* the formal row alone is returned.
C20_Witness ==
    /\ call.name = "discard_informal_votes"
    /\ call.voting_table = << Row(1, NaN, 3), Row(2, 1, NaN) >>
    /\ call.returned = << Row(2, 1, NaN) >>

============================================================================
